---- MODULE Spec2Model ----
(***************************************************************************)
(* A model of gitcloner: the URL canonicaliser, the sync engine            *)
(* (GitManager), the registry (Database), the session store (AuthManager), *)
(* the HTTP handlers behind their authorisation filter and the nightly     *)
(* sweep.  Strings the code inspects character by character are    *)
(* sequences of one-character strings.  A commit is identified with its    *)
(* first-parent history, a non-empty sequence of commit labels, so that    *)
(* ancestry is the prefix order and graph_ahead_behind is computed from    *)
(* the longest common prefix.                                              *)
(***************************************************************************)
EXTENDS Integers, Sequences, FiniteSets, TLC

\* ------------------------------------------------------------------ bounds
\* Commits pushed to the remotes while the service runs.
MaxPush == 1

\* Requests and sweeps started in one run.
MaxOps == 2

\* Trailing slashes on a URL given to the canonicaliser.
MaxSlashes == 1

\* Tokens Uuid::new_v4 is asked for in one run.
MaxLogins == 2

\* ------------------------------------------------------- string primitives
starts_with(s, p) == Len(s) >= Len(p) /\ SubSeq(s, 1, Len(p)) = p

ends_with(s, p) == Len(s) >= Len(p) /\ SubSeq(s, Len(s) - Len(p) + 1, Len(s)) = p

\* str::trim_end_matches: strips the suffix as often as it matches.
RECURSIVE trim_end_matches(_, _)
trim_end_matches(s, p) ==
    IF Len(p) > 0 /\ ends_with(s, p)
    THEN trim_end_matches(SubSeq(s, 1, Len(s) - Len(p)), p)
    ELSE s

\* Index of the first occurrence of p in s at or after i, 0 when there is none.
RECURSIVE find_from(_, _, _)
find_from(s, p, i) ==
    IF i + Len(p) - 1 > Len(s) THEN 0
    ELSE IF SubSeq(s, i, i + Len(p) - 1) = p THEN i
    ELSE find_from(s, p, i + 1)

contains(s, p) == find_from(s, p, 1) # 0

\* A split at the first occurrence only.
split_first(s, p) ==
    LET i == find_from(s, p, 1) IN
    IF i = 0 THEN <<s>> ELSE <<SubSeq(s, 1, i - 1), SubSeq(s, i + Len(p), Len(s))>>

\* str::split: the pieces between the occurrences of p, empty pieces kept.
RECURSIVE split(_, _)
split(s, p) ==
    LET i == find_from(s, p, 1) IN
    IF i = 0 THEN <<s>>
    ELSE <<SubSeq(s, 1, i - 1)>> \o split(SubSeq(s, i + Len(p), Len(s)), p)

\* str::replace of one character by another.
replace(s, from, to) == [i \in 1..Len(s) |-> IF s[i] = from THEN to ELSE s[i]]

Slash == <<"/">>
DotGit == <<".", "g", "i", "t">>
Http == <<"h", "t", "t", "p", ":", "/", "/">>
Https == <<"h", "t", "t", "p", "s", ":", "/", "/">>
SchemeSep == <<":", "/", "/">>

Err(reason) == [ok |-> FALSE, name |-> <<>>, err |-> reason]
Ok(name) == [ok |-> TRUE, name |-> name, err |-> ""]

\* The tail of extract_repo_name: the empty check and the two replacements.
safe_name(parsed_url) ==
    IF parsed_url = <<>> THEN Err("Could not extract repository name from URL")
    ELSE Ok(replace(replace(parsed_url, ":", "_"), "@", "_"))

\* git_manager.rs extract_repo_name
extract_repo_name(raw) ==
    LET url == trim_end_matches(raw, Slash) IN
    IF starts_with(url, Http) \/ starts_with(url, Https) THEN
        LET pieces == split(url, SchemeSep) IN
        IF Len(pieces) < 2 THEN Err("Invalid URL format")
        ELSE
            LET parts == split(pieces[2], Slash) IN
            IF Len(parts) < 3 THEN Err("Invalid repository URL format")
            ELSE safe_name(parts[1] \o Slash \o parts[2] \o Slash
                           \o trim_end_matches(parts[3], DotGit))
    ELSE IF contains(url, <<"@">>) THEN
        LET parts == split(url, <<"@">>) IN
        IF Len(parts) # 2 THEN Err("Invalid SSH URL format")
        ELSE
            LET colon_split == split(parts[2], <<":">>) IN
            IF Len(colon_split) # 2 THEN Err("Invalid SSH URL format")
            ELSE
                LET host == colon_split[1]
                    path_parts == split(colon_split[2], Slash)
                IN
                IF Len(path_parts) = 2
                THEN safe_name(host \o Slash \o path_parts[1] \o Slash
                               \o trim_end_matches(path_parts[2], DotGit))
                ELSE IF Len(path_parts) = 1
                THEN safe_name(host \o Slash \o trim_end_matches(path_parts[1], DotGit))
                ELSE Err("Invalid repository path format")
    ELSE Err("Unsupported URL format")

\* An API-layer copy that has drifted from the engine's: it keeps the ".git"
\* suffix.
handlers_keep_suffix(raw) ==
    LET r == extract_repo_name(raw) IN
    IF r.ok /\ ends_with(trim_end_matches(raw, Slash), DotGit)
    THEN Ok(r.name \o DotGit) ELSE r

\* A canonicaliser in the API layer that lets every URL through.
handlers_accept_any(raw) == Ok(raw)

\* handlers.rs extract_repo_name, the API layer's own copy
handlers_extract_repo_name(raw) ==
    LET url == trim_end_matches(raw, Slash) IN
    IF starts_with(url, Http) \/ starts_with(url, Https) THEN
        LET pieces == split(url, SchemeSep) IN
        IF Len(pieces) < 2 THEN Err("Invalid URL format")
        ELSE
            LET parts == split(pieces[2], Slash) IN
            IF Len(parts) < 3 THEN Err("Invalid repository URL format")
            ELSE safe_name(parts[1] \o Slash \o parts[2] \o Slash
                           \o trim_end_matches(parts[3], DotGit))
    ELSE IF contains(url, <<"@">>) THEN
        LET parts == split(url, <<"@">>) IN
        IF Len(parts) # 2 THEN Err("Invalid SSH URL format")
        ELSE
            LET colon_split == split(parts[2], <<":">>) IN
            IF Len(colon_split) # 2 THEN Err("Invalid SSH URL format")
            ELSE
                LET host == colon_split[1]
                    path_parts == split(colon_split[2], Slash)
                IN
                IF Len(path_parts) = 2
                THEN safe_name(host \o Slash \o path_parts[1] \o Slash
                               \o trim_end_matches(path_parts[2], DotGit))
                ELSE IF Len(path_parts) = 1
                THEN safe_name(host \o Slash \o trim_end_matches(path_parts[1], DotGit))
                ELSE Err("Invalid repository path format")
    ELSE Err("Unsupported URL format")

\* ------------------------------------------------------------ the requests
\* https://h/o/a
UrlA == Https \o <<"h", "/", "o", "/", "a">>
\* https://h/o/a.git, the same repository under another spelling
UrlAGit == UrlA \o DotGit
\* g@h:o/b.git
UrlB == <<"g", "@", "h", ":", "o", "/", "b">> \o DotGit
\* h/o, neither a scheme nor an @
UrlBad == <<"h", "/", "o">>

Urls == {UrlA, UrlAGit, UrlB, UrlBad}


\* Requests the API receives: every URL above can be added, removed or synced.
ValidUrls == {u \in Urls : extract_repo_name(u).ok}

\* GitManager::new("./repos")
base_path == <<".", "/", "r", "e", "p", "o", "s">>

\* PathBuf::join: an absolute second path replaces the first.
join(base, name) == IF starts_with(name, Slash) THEN name ELSE base \o Slash \o name

Paths == {join(base_path, extract_repo_name(u).name) : u \in ValidUrls}

\* The remote repository a URL names (both spellings of a name reach the same one).
RemoteOf(path) == path

\* ------------------------------------------------------------------ commits
NoRef == <<>>

RECURSIVE common_prefix(_, _)
common_prefix(a, b) ==
    IF a = <<>> \/ b = <<>> \/ Head(a) # Head(b) THEN 0
    ELSE 1 + common_prefix(Tail(a), Tail(b))

\* git2 Repository::graph_ahead_behind(local, upstream)
graph_ahead_behind(local, upstream) ==
    [ahead |-> Len(local) - common_prefix(local, upstream),
     behind |-> Len(upstream) - common_prefix(local, upstream)]

IsAncestor(a, b) == Len(a) <= Len(b) /\ SubSeq(b, 1, Len(a)) = a

\* ------------------------------------------------------------------- state
Handlers == {"h1", "h2"}
Sweeper == "sweep"
Procs == Handlers \cup {Sweeper}

NoDir == [exists |-> FALSE]
NULL == 0

VARIABLES
    fs,       \* local_path -> the directory there, or NoDir
    remote,   \* remote repository -> tip of its branch
    db,       \* the repositories table, in insertion order
    now,      \* CURRENT_TIMESTAMP
    nextId,   \* the next row id
    pc,       \* where each handler and the sweep stand
    loc,      \* their local variables
    ops,      \* requests and sweeps started
    pushes,   \* commits pushed to the remotes so far
    hist,     \* per clone, the remote tip the attempt that returned last on it
              \* fetched if it found the clone up to date (history only)
    sessions, \* AuthManager.sessions: token -> username
    issued,   \* the sessions create_session has handed out, in order
              \* (history only)
    revoked,  \* the tokens a logout has removed (history only)
    canon,    \* a URL given to extract_repo_name, and what it returned
    persist   \* one sync result with the fate of its writes, and what each
              \* caller made of it

\* The session store, the canonicaliser's input and the callers' comparison,
\* which the repository operations never touch.
aux == <<sessions, issued, revoked, canon, persist>>

vars == <<fs, remote, db, now, nextId, pc, loc, ops, pushes, hist,
          sessions, issued, revoked, canon, persist>>

\* A fresh clone: the branch, its remote-tracking reference and the working
\* directory all at the remote's tip.
FreshClone(tip) ==
    [exists |-> TRUE, valid |-> TRUE, origin |-> TRUE, head |-> "branch",
     tip |-> tip, tracking |-> tip, wt |-> tip, dirty |-> FALSE]

NoRec == [url |-> <<>>, local_path |-> <<>>]

\* A request without an Authorization header.
NoHeader == [present |-> FALSE, value |-> <<>>]

Locals0 ==
    [op |-> "none", url |-> <<>>, name |-> <<>>, rec |-> NoRec, queue |-> <<>>,
     read |-> <<>>, remote_commit |-> NoRef, outcome |-> "none", n |-> 0,
     result |-> "none", reason |-> "", resp |-> 0,
     fetched |-> NoRef, overlap |-> FALSE, wrote |-> TRUE,
     route |-> "none", header |-> NoHeader, username |-> "", token |-> <<>>]

\* Nothing has been synced yet.
Hist0 == NoRef

\* AuthManager::new: an empty map.
NoSessions == [t \in {} |-> ""]

\* No URL has been given to extract_repo_name.
NoCanon == [form |-> "none"]

\* No sync result has been handed to the callers.
NoPersist == [result |-> "none"]

\* AddRepository's row for a URL.
Row(id, url) ==
    [id |-> id, url |-> url, name |-> extract_repo_name(url).name,
     local_path |-> join(base_path, extract_repo_name(url).name),
     status |-> "pending", last_synced |-> NULL]

PathA == join(base_path, extract_repo_name(UrlA).name)
PathB == join(base_path, extract_repo_name(UrlB).name)

Idle ==
    /\ now = 0
    /\ pc = [p \in Procs |-> "idle"]
    /\ loc = [p \in Procs |-> Locals0]
    /\ ops = 0
    /\ pushes = 0
    /\ hist = [p \in Paths |-> Hist0]
    /\ sessions = NoSessions
    /\ issued = <<>>
    /\ revoked = {}
    /\ canon = NoCanon
    /\ persist = NoPersist

\* The registry and the clones outlive the process: the service starts with
\* none, one or both of the repositories registered by an earlier run, each
\* as AddRepository left it, or with the first one's directory deleted since.
Init ==
    /\ Idle
    /\ \E ra \in {<<"r">>, <<"r", "r">>} : remote = [p \in Paths |-> IF p = PathA THEN ra ELSE <<"r">>]
    /\ \E n \in 0..2, gone \in BOOLEAN :
         /\ gone => n > 0
         /\ db = SubSeq(<<Row(1, UrlA), Row(2, UrlB)>>, 1, n)
         /\ nextId = n + 1
         /\ fs = [p \in Paths |->
                    IF (p = PathA /\ n >= 1 /\ ~gone) \/ (p = PathB /\ n = 2)
                    THEN FreshClone(<<"r">>) ELSE NoDir]

\* What the operator can have made of a clone of a remote at <<"r">>: commits
\* of their own, uncommitted edits, a detached head with or without
\* refs/remotes/origin/HEAD, a branch the remote does not have, no remote
\* named origin, damaged metadata, the directory deleted.
OperatorClones ==
    {[FreshClone(<<"r">>) EXCEPT !.tip = t, !.wt = t, !.dirty = d] :
        t \in {<<"r">>, <<"r", "l">>}, d \in BOOLEAN}
    \cup {[FreshClone(<<"r">>) EXCEPT !.head = "detached"],
          [FreshClone(<<"r">>) EXCEPT !.head = "detached", !.tracking = NoRef],
          [FreshClone(<<"r">>) EXCEPT !.tracking = NoRef],
          [FreshClone(<<"r">>) EXCEPT !.origin = FALSE],
          [FreshClone(<<"r">>) EXCEPT !.valid = FALSE],
          NoDir}

\* Both repositories registered; the first clone in any state the operator
\* can have left it in, its remote possibly a commit further.
InitSync ==
    /\ Idle
    /\ \E ra \in {<<"r">>, <<"r", "r">>} : remote = [p \in Paths |-> IF p = PathA THEN ra ELSE <<"r">>]
    /\ db = <<Row(1, UrlA), Row(2, UrlB)>>
    /\ nextId = 3
    /\ \E c \in OperatorClones :
         fs = [p \in Paths |-> IF p = PathA THEN c ELSE FreshClone(<<"r">>)]

\* ---------------------------------------------------------------- registry
RECURSIVE Reverse(_)
Reverse(s) == IF s = <<>> THEN <<>> ELSE Reverse(Tail(s)) \o <<Head(s)>>

RECURSIVE SelectRows(_, _)
SelectRows(rows, url) ==
    IF rows = <<>> THEN <<>>
    ELSE IF Head(rows).url = url THEN <<Head(rows)>> \o SelectRows(Tail(rows), url)
    ELSE SelectRows(Tail(rows), url)

RECURSIVE DeleteRows(_, _)
DeleteRows(rows, url) ==
    IF rows = <<>> THEN <<>>
    ELSE IF Head(rows).url = url THEN DeleteRows(Tail(rows), url)
    ELSE <<Head(rows)>> \o DeleteRows(Tail(rows), url)

\* Database::get_all_repositories: ORDER BY created_at DESC
get_all_repositories(rows) == Reverse(rows)

\* An insert that records the root instead of the clone's path.
add_repository_elsewhere(rows, id, url, name, local_path) ==
    Append(rows, [id |-> id, url |-> url, name |-> name, local_path |-> base_path,
                  status |-> "pending", last_synced |-> NULL])

\* Database::add_repository
add_repository(rows, id, url, name, local_path) ==
    Append(rows, [id |-> id, url |-> url, name |-> name, local_path |-> local_path,
                  status |-> "pending", last_synced |-> NULL])

\* A delete that matches no row.
remove_repository_kept(rows, url) == rows

\* Database::remove_repository
remove_repository(rows, url) == DeleteRows(rows, url)

\* Database::update_repository_status
update_repository_status(rows, url, status) ==
    [i \in DOMAIN rows |->
        IF rows[i].url = url THEN [rows[i] EXCEPT !.status = status] ELSE rows[i]]

\* Database::update_last_synced
update_last_synced(rows, url, t) ==
    [i \in DOMAIN rows |->
        IF rows[i].url = url THEN [rows[i] EXCEPT !.last_synced = t] ELSE rows[i]]

\* What a handler keeps of a row: the fields sync_repository reads.
Snapshot(row) == [url |-> row.url, local_path |-> row.local_path]

RECURSIVE Snapshots(_)
Snapshots(rows) ==
    IF rows = <<>> THEN <<>> ELSE <<Snapshot(Head(rows))>> \o Snapshots(Tail(rows))

\* ------------------------------------------------------------- sync engine
EnginePcs == {"decide", "set_target", "checkout"}

\* p is inside GitManager::sync_repository on the clone at path.
InProgress(p, path) == pc[p] \in EnginePcs /\ loc[p].rec.local_path = path

\* p's locals after a step on the clone at path; every other attempt in
\* progress on that clone is marked as overlapped.
Touch(p, mine, path) ==
    [q \in Procs |->
        IF q = p THEN mine
        ELSE IF InProgress(q, path) THEN [loc[q] EXCEPT !.overlap = TRUE]
        ELSE loc[q]]

\* An engine that reports success whatever happened.
returned_ok(l, outcome, n, reason) ==
    [l EXCEPT !.outcome = outcome, !.n = n, !.reason = reason, !.result = "ok"]

\* sync_repository returns to its caller.
Returned(l, outcome, n, reason) ==
    [l EXCEPT !.outcome = outcome, !.n = n, !.reason = reason,
              !.result = IF outcome = "Error" THEN "err" ELSE "ok"]

\* What the attempt that returned last on a clone fetched, when it found the
\* clone up to date.
Note(path, l) ==
    [hist EXCEPT ![path] = IF l.outcome = "UpToDate" THEN l.fetched ELSE NoRef]

\* Lines 68-94: the path check, Repository::open, find_remote("origin") and the
\* fetch into refs/remotes/origin/*.
SyncFetch(p) ==
    /\ pc[p] = "fetch"
    /\ LET path == loc[p].rec.local_path
           d == fs[path]
           l == [loc[p] EXCEPT !.overlap = \E q \in Procs \ {p} : InProgress(q, path)]
           fail(reason) ==
               /\ pc' = [pc EXCEPT ![p] = "status"]
               /\ loc' = [loc EXCEPT ![p] = Returned(l, "Error", 0, reason)]
               /\ fs' = fs
               /\ hist' = Note(path, Returned(l, "Error", 0, reason))
       IN
       \E net \in BOOLEAN :
         IF ~d.exists THEN net /\ fail("PathMissing")
         ELSE IF ~d.valid THEN net /\ fail("OpenError")
         ELSE IF ~d.origin THEN net /\ fail("NoOrigin")
         ELSE IF ~net THEN fail("FetchFailed")
         ELSE
              /\ pc' = [pc EXCEPT ![p] = "decide"]
              /\ fs' = [fs EXCEPT ![path].tracking =
                            IF d.tracking = NoRef THEN NoRef ELSE remote[RemoteOf(path)]]
              /\ loc' = Touch(p, [l EXCEPT !.fetched = remote[RemoteOf(path)]], path)
              /\ hist' = hist
    /\ UNCHANGED <<remote, db, now, nextId, ops, pushes>>
    /\ UNCHANGED aux

\* A status scan that misses uncommitted edits.
only_tree_differs(d) == d.wt # d.tip

\* repo.statuses(None) is not empty: an edit, or a working directory that is
\* not the tree of the branch tip.
has_local_changes(d) == d.dirty \/ d.wt # d.tip

\* head.shorthand(): the branch name, and "HEAD" for a detached head, whose
\* remote-tracking counterpart is then refs/remotes/origin/HEAD.
shorthand(d) == IF d.head = "branch" THEN "main" ELSE "HEAD"

\* A decision that never fast-forwards.
decision_never_forward(d) ==
    LET ab == graph_ahead_behind(d.tip, d.tracking) IN
    IF has_local_changes(d) THEN [outcome |-> "LocalChangesSkipped", n |-> 0]
    ELSE IF d.tracking = NoRef THEN [outcome |-> "UpToDate", n |-> 0]
    ELSE IF ab.ahead > 0 /\ ab.behind > 0 THEN [outcome |-> "DivergedSkipped", n |-> 0]
    ELSE [outcome |-> "UpToDate", n |-> 0]

\* A decision that fast-forwards whenever the remote has new commits, local
\* commits or not.
decision_any_behind(d) ==
    LET ab == graph_ahead_behind(d.tip, d.tracking) IN
    IF has_local_changes(d) THEN [outcome |-> "LocalChangesSkipped", n |-> 0]
    ELSE IF d.tracking = NoRef THEN [outcome |-> "UpToDate", n |-> 0]
    ELSE IF ab.behind > 0 THEN [outcome |-> "FastForwarded", n |-> ab.behind]
    ELSE [outcome |-> "UpToDate", n |-> 0]

\* A decision that takes the fast-forward branch with nothing to forward.
decision_eager(d) ==
    LET ab == graph_ahead_behind(d.tip, d.tracking) IN
    IF has_local_changes(d) THEN [outcome |-> "LocalChangesSkipped", n |-> 0]
    ELSE IF d.tracking = NoRef THEN [outcome |-> "UpToDate", n |-> 0]
    ELSE IF ab.ahead = 0 THEN [outcome |-> "FastForwarded", n |-> ab.behind]
    ELSE IF ab.ahead > 0 /\ ab.behind > 0 THEN [outcome |-> "DivergedSkipped", n |-> 0]
    ELSE [outcome |-> "UpToDate", n |-> 0]

\* Lines 97-127: what sync_repository does with the clone it finds after the
\* fetch.
decision(d) ==
    LET ab == graph_ahead_behind(d.tip, d.tracking) IN
    IF has_local_changes(d) THEN [outcome |-> "LocalChangesSkipped", n |-> 0]
    ELSE IF d.tracking = NoRef THEN [outcome |-> "UpToDate", n |-> 0]
    ELSE IF ab.ahead = 0 /\ ab.behind > 0 THEN [outcome |-> "FastForwarded", n |-> ab.behind]
    ELSE IF ab.ahead > 0 /\ ab.behind > 0 THEN [outcome |-> "DivergedSkipped", n |-> 0]
    ELSE [outcome |-> "UpToDate", n |-> 0]

\* Lines 97-115: statuses, head, the remote-tracking reference and
\* graph_ahead_behind; every branch but the fast-forward returns here.
SyncDecide(p) ==
    /\ pc[p] = "decide"
    /\ LET path == loc[p].rec.local_path
           d == fs[path]
           l == loc[p]
       IN
       IF ~d.exists THEN
            /\ pc' = [pc EXCEPT ![p] = "status"]
            /\ loc' = Touch(p, Returned(l, "Error", 0, "StatusFailed"), path)
            /\ hist' = Note(path, Returned(l, "Error", 0, "StatusFailed"))
       ELSE IF decision(d).outcome = "FastForwarded" THEN
            /\ pc' = [pc EXCEPT ![p] = "set_target"]
            /\ loc' = Touch(p, [l EXCEPT !.remote_commit = d.tracking,
                                         !.n = decision(d).n], path)
            /\ hist' = hist
       ELSE
            /\ pc' = [pc EXCEPT ![p] = "status"]
            /\ loc' = Touch(p, Returned(l, decision(d).outcome, 0, ""), path)
            /\ hist' = Note(path, Returned(l, decision(d).outcome, 0, ""))
    /\ UNCHANGED <<fs, remote, db, now, nextId, ops, pushes>>
    /\ UNCHANGED aux

\* Lines 118-119: find_reference("refs/heads/<branch>") and set_target; there
\* is no refs/heads/HEAD to find for a detached head.
SyncSetTarget(p) ==
    /\ pc[p] = "set_target"
    /\ LET path == loc[p].rec.local_path
           d == fs[path]
       IN
       IF ~d.exists \/ shorthand(d) = "HEAD" THEN
            /\ pc' = [pc EXCEPT ![p] = "status"]
            /\ loc' = Touch(p, Returned(loc[p], "Error", 0, "ReferenceFailed"), path)
            /\ fs' = fs
            /\ hist' = Note(path, Returned(loc[p], "Error", 0, "ReferenceFailed"))
       ELSE
            /\ pc' = [pc EXCEPT ![p] = "checkout"]
            /\ fs' = [fs EXCEPT ![path].tip = loc[p].remote_commit]
            /\ loc' = Touch(p, loc[p], path)
            /\ hist' = hist
    /\ UNCHANGED <<remote, db, now, nextId, ops, pushes>>
    /\ UNCHANGED aux

\* Line 120: checkout_head with force; a checkout can fail on the filesystem.
SyncCheckout(p) ==
    /\ pc[p] = "checkout"
    /\ LET path == loc[p].rec.local_path
           d == fs[path]
           after == [d EXCEPT !.wt = d.tip, !.dirty = FALSE]
       IN
       \E io \in BOOLEAN :
         IF ~d.exists \/ ~io THEN
              /\ pc' = [pc EXCEPT ![p] = "status"]
              /\ loc' = Touch(p, Returned(loc[p], "Error", 0, "CheckoutFailed"), path)
              /\ fs' = fs
              /\ hist' = Note(path, Returned(loc[p], "Error", 0, "CheckoutFailed"))
         ELSE
              /\ pc' = [pc EXCEPT ![p] = "status"]
              /\ fs' = [fs EXCEPT ![path] = after]
              /\ loc' = Touch(p, Returned(loc[p], "FastForwarded", loc[p].n, ""), path)
              /\ hist' = Note(path, Returned(loc[p], "FastForwarded", loc[p].n, ""))
    /\ UNCHANGED <<remote, db, now, nextId, ops, pushes>>
    /\ UNCHANGED aux

\* -------------------------------------------- on-demand sync and the sweep
Respond(l, code) == [l EXCEPT !.resp = code]

\* A request goes to the first free handler task.
MayStart(p) ==
    /\ p \in Handlers
    /\ \/ pc[p] = "idle" /\ ops < MaxOps
       \/ pc[p] = "admitted"
    /\ p = "h2" => pc["h1"] # "idle"

\* A request is counted once: by the authorisation filter when it went
\* through one, by its handler otherwise.
Counted(p) == IF pc[p] = "admitted" THEN ops ELSE ops + 1

\* The reply is sent and the task ends.
Finish(p) ==
    /\ pc[p] = "done"
    /\ pc' = [pc EXCEPT ![p] = "idle"]
    /\ loc' = [loc EXCEPT ![p] = Locals0]
    /\ UNCHANGED <<fs, remote, db, now, nextId, ops, pushes, hist>>
    /\ UNCHANGED aux

\* handlers.rs 311-343: get_all_repositories, then find the record by URL.
StartSync(p, u) ==
    /\ MayStart(p)
    /\ ops' = Counted(p)
    /\ LET l == [Locals0 EXCEPT !.op = "sync", !.url = u]
           found == SelectRows(get_all_repositories(db), u)
       IN
       \E dbok \in BOOLEAN :
         IF ~dbok THEN
              /\ loc' = [loc EXCEPT ![p] = Respond(l, 500)]
              /\ pc' = [pc EXCEPT ![p] = "done"]
         ELSE IF found = <<>> THEN
              /\ loc' = [loc EXCEPT ![p] = Respond(l, 404)]
              /\ pc' = [pc EXCEPT ![p] = "done"]
         ELSE
              /\ loc' = [loc EXCEPT ![p] = [l EXCEPT !.rec = Snapshot(Head(found))]]
              /\ pc' = [pc EXCEPT ![p] = "fetch"]
    /\ UNCHANGED <<fs, remote, db, now, nextId, pushes, hist>>
    /\ UNCHANGED aux

\* main.rs 80: the sweep reads every record, then takes them in turn.
StartSweep ==
    /\ pc[Sweeper] = "idle"
    /\ ops < MaxOps
    /\ ops' = ops + 1
    /\ LET l == [Locals0 EXCEPT !.op = "sweep"]
           repos == Snapshots(get_all_repositories(db))
       IN
       \E dbok \in BOOLEAN :
         IF ~dbok THEN
              /\ loc' = [loc EXCEPT ![Sweeper] = [l EXCEPT !.result = "aborted"]]
              /\ pc' = [pc EXCEPT ![Sweeper] = "done"]
         ELSE IF repos = <<>> THEN
              /\ loc' = [loc EXCEPT ![Sweeper] = [l EXCEPT !.result = "swept"]]
              /\ pc' = [pc EXCEPT ![Sweeper] = "done"]
         ELSE
              /\ loc' = [loc EXCEPT ![Sweeper] =
                            [l EXCEPT !.read = repos, !.rec = Head(repos),
                                      !.queue = Tail(repos)]]
              /\ pc' = [pc EXCEPT ![Sweeper] = "fetch"]
    /\ UNCHANGED <<fs, remote, db, now, nextId, pushes, hist>>
    /\ UNCHANGED aux

\* The sweep's for loop: the next record, or the end of the sweep.
NextRecord(l) ==
    IF l.queue = <<>>
    THEN [l EXCEPT !.rec = NoRec, !.result = "swept"]
    ELSE [l EXCEPT !.rec = Head(l.queue), !.queue = Tail(l.queue),
                   !.remote_commit = NoRef, !.outcome = "none", !.n = 0,
                   !.result = "none", !.reason = "",
                   !.fetched = NoRef, !.overlap = FALSE, !.wrote = TRUE]

NextPc(l) == IF l.queue = <<>> THEN "done" ELSE "fetch"

\* A caller that puts a failed record back to pending.
status_for_pending(result) == IF result = "ok" THEN "synced" ELSE "pending"

\* The status a caller records for what sync_repository returned.
status_for(result) == IF result = "ok" THEN "synced" ELSE "error"

\* handlers.rs 315-316 and 326-333: the handler drops a failed write (let _ =).
HandlerStatus(p) ==
    /\ p \in Handlers
    /\ pc[p] = "status"
    /\ LET l == loc[p] IN
       \E dbok \in BOOLEAN :
         /\ db' = IF dbok
                  THEN update_repository_status(db, l.rec.url, status_for(l.result))
                  ELSE db
         /\ IF l.result = "ok"
            THEN /\ pc' = [pc EXCEPT ![p] = "last_synced"]
                 /\ loc' = [loc EXCEPT ![p].wrote = dbok]
                 /\ hist' = hist
            ELSE /\ pc' = [pc EXCEPT ![p] = "done"]
                 /\ loc' = [loc EXCEPT ![p] = Respond([l EXCEPT !.wrote = dbok], 500)]
                 /\ hist' = hist
    /\ UNCHANGED <<fs, remote, now, nextId, ops, pushes>>
    /\ UNCHANGED aux

\* handlers.rs 317-324
HandlerLastSynced(p) ==
    /\ p \in Handlers
    /\ pc[p] = "last_synced"
    /\ LET l == loc[p] IN
       \E dbok \in BOOLEAN :
         /\ db' = IF dbok THEN update_last_synced(db, l.rec.url, now + 1) ELSE db
         /\ now' = IF dbok THEN now + 1 ELSE now
         /\ loc' = [loc EXCEPT ![p] = Respond([l EXCEPT !.wrote = l.wrote /\ dbok], 200)]
         /\ hist' = hist
    /\ pc' = [pc EXCEPT ![p] = "done"]
    /\ UNCHANGED <<fs, remote, nextId, ops, pushes>>
    /\ UNCHANGED aux

\* main.rs 82-86: a failed write leaves the function through `?`.
SweepStatus ==
    /\ pc[Sweeper] = "status"
    /\ LET l == loc[Sweeper] IN
       \E dbok \in BOOLEAN :
         IF ~dbok THEN
              /\ db' = db
              /\ pc' = [pc EXCEPT ![Sweeper] = "done"]
              /\ loc' = [loc EXCEPT ![Sweeper] = [l EXCEPT !.result = "aborted", !.wrote = FALSE]]
              /\ hist' = hist
         ELSE
              /\ db' = update_repository_status(db, l.rec.url, status_for(l.result))
              /\ IF l.result = "ok"
                 THEN /\ pc' = [pc EXCEPT ![Sweeper] = "last_synced"]
                      /\ loc' = loc
                      /\ hist' = hist
                 ELSE /\ pc' = [pc EXCEPT ![Sweeper] = NextPc(l)]
                      /\ loc' = [loc EXCEPT ![Sweeper] = NextRecord(l)]
                      /\ hist' = hist
    /\ UNCHANGED <<fs, remote, now, nextId, ops, pushes>>
    /\ UNCHANGED aux

\* main.rs 87
SweepLastSynced ==
    /\ pc[Sweeper] = "last_synced"
    /\ LET l == loc[Sweeper] IN
       \E dbok \in BOOLEAN :
         IF ~dbok THEN
              /\ db' = db
              /\ now' = now
              /\ pc' = [pc EXCEPT ![Sweeper] = "done"]
              /\ loc' = [loc EXCEPT ![Sweeper] = [l EXCEPT !.result = "aborted", !.wrote = FALSE]]
              /\ hist' = hist
         ELSE
              /\ db' = update_last_synced(db, l.rec.url, now + 1)
              /\ now' = now + 1
              /\ pc' = [pc EXCEPT ![Sweeper] = NextPc(l)]
              /\ loc' = [loc EXCEPT ![Sweeper] = NextRecord(l)]
              /\ hist' = hist
    /\ UNCHANGED <<fs, remote, nextId, ops, pushes>>
    /\ UNCHANGED aux

\* ------------------------------------------------------------ AddRepository
\* handlers.rs 191-201: the API layer's own canonicalisation.
StartAdd(p, u) ==
    /\ MayStart(p)
    /\ ops' = Counted(p)
    /\ LET l == [Locals0 EXCEPT !.op = "add", !.url = u]
           r == handlers_extract_repo_name(u)
       IN
       IF ~r.ok
       THEN /\ loc' = [loc EXCEPT ![p] = Respond([l EXCEPT !.reason = r.err], 400)]
            /\ pc' = [pc EXCEPT ![p] = "done"]
       ELSE /\ loc' = [loc EXCEPT ![p] = [l EXCEPT !.name = r.name]]
            /\ pc' = [pc EXCEPT ![p] = "clone_check"]
    /\ UNCHANGED <<fs, remote, db, now, nextId, pushes, hist>>
    /\ UNCHANGED aux

\* An existence check that never finds the directory.
path_never_exists(d) == FALSE

\* Path::exists
path_exists(d) == d.exists

\* git_manager.rs 28-33: the name, the target path and the existence check.
CloneCheck(p) ==
    /\ pc[p] = "clone_check"
    /\ LET r == extract_repo_name(loc[p].url)
           local_path == join(base_path, r.name)
       IN
       IF ~r.ok
       THEN /\ loc' = [loc EXCEPT ![p] = Respond([loc[p] EXCEPT !.reason = r.err], 400)]
            /\ pc' = [pc EXCEPT ![p] = "done"]
       ELSE IF path_exists(fs[local_path])
       THEN /\ loc' = [loc EXCEPT ![p] =
                          Respond([loc[p] EXCEPT !.reason = "AlreadyExists"], 400)]
            /\ pc' = [pc EXCEPT ![p] = "done"]
       ELSE /\ loc' = [loc EXCEPT ![p].rec = [url |-> loc[p].url, local_path |-> local_path]]
            /\ pc' = [pc EXCEPT ![p] = "clone"]
    /\ UNCHANGED <<fs, remote, db, now, nextId, ops, pushes, hist>>
    /\ UNCHANGED aux

\* git_manager.rs 57: RepoBuilder::clone, which refuses a target that exists.
CloneRun(p) ==
    /\ pc[p] = "clone"
    /\ LET path == loc[p].rec.local_path IN
       \E net \in BOOLEAN :
         IF fs[path].exists \/ ~net
         THEN /\ fs' = fs
              /\ loc' = [loc EXCEPT ![p] =
                            Respond([loc[p] EXCEPT !.reason = "CloneFailed"], 400)]
              /\ pc' = [pc EXCEPT ![p] = "done"]
              /\ hist' = hist
         ELSE /\ fs' = [fs EXCEPT ![path] = FreshClone(remote[RemoteOf(path)])]
              /\ loc' = Touch(p, loc[p], path)
              /\ pc' = [pc EXCEPT ![p] = "insert"]
              /\ hist' = [hist EXCEPT ![path] = Hist0]
    /\ UNCHANGED <<remote, db, now, nextId, ops, pushes>>
    /\ UNCHANGED aux

\* A table whose only unique column is url.
unique_url_only(rows, url, local_path) == \A i \in DOMAIN rows : rows[i].url # url

\* The table's constraints: url and local_path are unique.
unique_ok(rows, url, local_path) ==
    \A i \in DOMAIN rows : rows[i].url # url /\ rows[i].local_path # local_path

\* handlers.rs 205-223: the insert after a successful clone.
InsertRecord(p) ==
    /\ pc[p] = "insert"
    /\ \E dbok \in BOOLEAN :
         IF dbok /\ unique_ok(db, loc[p].url, loc[p].rec.local_path)
         THEN /\ db' = add_repository(db, nextId, loc[p].url, loc[p].name,
                                      loc[p].rec.local_path)
              /\ nextId' = nextId + 1
              /\ loc' = [loc EXCEPT ![p] = Respond(loc[p], 201)]
              /\ hist' = [hist EXCEPT ![loc[p].rec.local_path] = Hist0]
         ELSE /\ db' = db
              /\ nextId' = nextId
              /\ loc' = [loc EXCEPT ![p] =
                            Respond([loc[p] EXCEPT !.reason = "InsertFailed"], 500)]
              /\ hist' = hist
    /\ pc' = [pc EXCEPT ![p] = "done"]
    /\ UNCHANGED <<fs, remote, now, ops, pushes>>
    /\ UNCHANGED aux

\* --------------------------------------------------------- RemoveRepository
\* Database::get_repository_by_url
get_repository_by_url(rows, url) == SelectRows(rows, url)

\* handlers.rs 245-269
StartRemove(p, u) ==
    /\ MayStart(p)
    /\ ops' = Counted(p)
    /\ LET l == [Locals0 EXCEPT !.op = "remove", !.url = u]
           found == get_repository_by_url(db, u)
       IN
       \E dbok \in BOOLEAN :
         IF ~dbok THEN
              /\ loc' = [loc EXCEPT ![p] = Respond(l, 500)]
              /\ pc' = [pc EXCEPT ![p] = "done"]
         ELSE IF found = <<>> THEN
              /\ loc' = [loc EXCEPT ![p] = Respond([l EXCEPT !.reason = "NotFound"], 404)]
              /\ pc' = [pc EXCEPT ![p] = "done"]
         ELSE
              /\ loc' = [loc EXCEPT ![p] = [l EXCEPT !.rec = Snapshot(Head(found))]]
              /\ pc' = [pc EXCEPT ![p] = "rmdir"]
    /\ UNCHANGED <<fs, remote, db, now, nextId, pushes, hist>>
    /\ UNCHANGED aux

\* handlers.rs 272-279: remove_dir_all, whose failure is only logged.
RemoveDir(p) ==
    /\ pc[p] = "rmdir"
    /\ LET path == loc[p].rec.local_path IN
       \E io \in BOOLEAN :
         IF fs[path].exists /\ io
         THEN /\ fs' = [fs EXCEPT ![path] = NoDir]
              /\ loc' = Touch(p, loc[p], path)
              /\ hist' = [hist EXCEPT ![path] = Hist0]
         ELSE /\ fs[path].exists \/ io
              /\ fs' = fs
              /\ loc' = loc
              /\ hist' = hist
    /\ pc' = [pc EXCEPT ![p] = "delete"]
    /\ UNCHANGED <<remote, db, now, nextId, ops, pushes>>
    /\ UNCHANGED aux

\* handlers.rs 282-299
DeleteRecord(p) ==
    /\ pc[p] = "delete"
    /\ \E dbok \in BOOLEAN :
         IF dbok
         THEN /\ db' = remove_repository(db, loc[p].url)
              /\ loc' = [loc EXCEPT ![p] = Respond(loc[p], 200)]
              /\ hist' = [hist EXCEPT ![loc[p].rec.local_path] = Hist0]
         ELSE /\ db' = db
              /\ loc' = [loc EXCEPT ![p] =
                            Respond([loc[p] EXCEPT !.reason = "DeleteFailed"], 500)]
              /\ hist' = hist
    /\ pc' = [pc EXCEPT ![p] = "done"]
    /\ UNCHANGED <<fs, remote, now, nextId, ops, pushes>>
    /\ UNCHANGED aux

\* ------------------------------------------------------------- environment
\* Somebody pushes a commit to the remote.
RemotePush(path) ==
    /\ pushes < MaxPush
    /\ remote' = [remote EXCEPT ![path] = Append(@, "r")]
    /\ pushes' = pushes + 1
    /\ UNCHANGED <<fs, db, now, nextId, pc, loc, ops, hist>>
    /\ UNCHANGED aux

\* --------------------------------------------------------------------- next
SyncRequest == \E p \in Handlers, u \in {UrlA, UrlB} : StartSync(p, u)

AddRequest == \E p \in Handlers, u \in {UrlA, UrlAGit, UrlBad} : StartAdd(p, u)

RemoveRequest == \E p \in Handlers, u \in {UrlA, UrlAGit} : StartRemove(p, u)

Engine ==
    \/ \E p \in Procs : SyncFetch(p)
    \/ \E p \in Procs : SyncDecide(p)
    \/ \E p \in Procs : SyncSetTarget(p)
    \/ \E p \in Procs : SyncCheckout(p)
    \/ \E p \in Handlers : HandlerStatus(p)
    \/ \E p \in Handlers : HandlerLastSynced(p)
    \/ SweepStatus
    \/ SweepLastSynced
    \/ \E p \in Procs : Finish(p)
    \/ \E path \in Paths : RemotePush(path)

Next ==
    \/ SyncRequest
    \/ AddRequest
    \/ RemoveRequest
    \/ StartSweep
    \/ Engine
    \/ \E p \in Handlers : CloneCheck(p)
    \/ \E p \in Handlers : CloneRun(p)
    \/ \E p \in Handlers : InsertRecord(p)
    \/ \E p \in Handlers : RemoveDir(p)
    \/ \E p \in Handlers : DeleteRecord(p)

\* The whole service, started on a registry of freshly added repositories.
Spec == Init /\ [][Next]_vars

NextSync ==
    \/ SyncRequest
    \/ StartSweep
    \/ Engine

\* The service answering sync requests and sweeping, started on clones the
\* operator has worked in.
SpecSync == InitSync /\ [][NextSync]_vars

\* ------------------------------------------------------------ sync attempts
PersistPcs == {"status", "last_synced"}

SyncPcs == {"fetch"} \cup EnginePcs \cup PersistPcs

\* p is somewhere between the start of a sync attempt on a record and the
\* last write of its outcome.
Attempting(p, url) == pc[p] \in SyncPcs /\ loc[p].rec.url = url

\* The step being taken ends p's attempt on the record it holds.
EndsAttempt(p) ==
    /\ pc[p] \in PersistPcs
    /\ pc'[p] \notin PersistPcs \/ loc'[p].rec # loc[p].rec

\* C1: at most one sync attempt (fetch, decide, fast-forward, persist) is in
\* progress on a repository at any time, whatever the interleaving of
\* on-demand syncs and the sweep.
OneSyncPerRepository ==
    \A p, q \in Procs :
        (p # q /\ pc[p] \in SyncPcs /\ pc[q] \in SyncPcs)
            => loc[p].rec.local_path # loc[q].rec.local_path

\* C2: whenever the local branch tip of a clone changes, the old tip is an
\* ancestor of the new one: local history is never discarded.
TipOnlyMovesForward ==
    [][\A path \in Paths :
          (fs[path].exists /\ fs'[path].exists /\ fs'[path].tip # fs[path].tip)
              => IsAncestor(fs[path].tip, fs'[path].tip)]_vars

\* ----------------------------------------------------- the engine's branches
\* The clone is clean: no uncommitted edit, the working directory the tree of
\* the branch tip.
Clean(d) == ~d.dirty /\ d.wt = d.tip

\* The branch is checked out and has a remote-tracking counterpart.
Tracked(d) == d.head = "branch" /\ d.tracking # NoRef

\* The local branch is strictly behind its remote-tracking counterpart.
StrictlyBehind(d) == IsAncestor(d.tip, d.tracking) /\ d.tip # d.tracking

\* Each side has commits the other lacks.
Diverged(d) == ~IsAncestor(d.tip, d.tracking) /\ ~IsAncestor(d.tracking, d.tip)

\* The step being taken is p's, out of the given place.
Steps(p, at) == pc[p] = at /\ pc'[p] # at

\* p's clone.
Clone(p) == fs[loc[p].rec.local_path]

LocalChangesAreSkipped ==
    [][\A p \in Procs :
          LET path == loc[p].rec.local_path
              d == fs[path]
          IN
          /\ (Steps(p, "fetch") /\ d.exists /\ d.dirty)
                => /\ fs'[path].tip = d.tip
                   /\ fs'[path].wt = d.wt
                   /\ fs'[path].dirty
          /\ (Steps(p, "decide") /\ d.exists /\ d.dirty)
                => /\ loc'[p].outcome = "LocalChangesSkipped"
                   /\ pc'[p] = "status"
                   /\ fs'[path].tip = d.tip
                   /\ fs'[path].wt = d.wt
                   /\ fs'[path].dirty]_vars

\* An attempt has skipped a modified clone whose branch is behind the remote.
SkippedModifiedBehind ==
    \E p \in Procs :
        /\ pc[p] \in PersistPcs
        /\ loc[p].outcome = "LocalChangesSkipped"
        /\ Clone(p).dirty
        /\ StrictlyBehind(Clone(p))

\* C5 as stated: whenever the branch and its remote-tracking counterpart have
\* diverged, the attempt returns DivergedSkipped and changes nothing.
DivergedAlwaysSkipped ==
    [][\A p \in Procs :
          LET path == loc[p].rec.local_path
              d == fs[path]
          IN
          (Steps(p, "decide") /\ d.exists /\ Tracked(d) /\ Diverged(d))
              => /\ loc'[p].outcome = "DivergedSkipped"
                 /\ fs' = fs]_vars

\* C5, amended: when the working directory is clean and the branch and its
\* remote-tracking counterpart have diverged, the attempt returns
\* DivergedSkipped and changes no reference and nothing in the working
\* directory.
DivergedCleanSkipped ==
    [][\A p \in Procs :
          LET path == loc[p].rec.local_path
              d == fs[path]
          IN
          (Steps(p, "decide") /\ d.exists /\ Clean(d) /\ Tracked(d) /\ Diverged(d))
              => /\ loc'[p].outcome = "DivergedSkipped"
                 /\ pc'[p] = "status"
                 /\ fs' = fs]_vars

\* An attempt has returned DivergedSkipped on a clean, diverged clone.
SkippedDiverged ==
    \E p \in Procs :
        /\ pc[p] \in PersistPcs
        /\ loc[p].outcome = "DivergedSkipped"
        /\ Clean(Clone(p))
        /\ Diverged(Clone(p))

\* The record of a URL, as a sequence of at most one row.
RowOf(url) == SelectRows(db, url)

\* C6: an attempt on a clean clone whose branch has everything its
\* remote-tracking counterpart has returns UpToDate and changes nothing; so
\* does the attempt that follows one that returned UpToDate, when it fetches
\* the same remote tip and no other attempt overlaps; and no step changes the
\* local_path of a record.
UpToDateIsStable ==
    [][/\ \A p \in Procs :
            LET path == loc[p].rec.local_path
                d == fs[path]
            IN
            /\ (Steps(p, "decide") /\ d.exists /\ Clean(d) /\ Tracked(d)
                    /\ IsAncestor(d.tracking, d.tip))
                  => /\ loc'[p].outcome = "UpToDate"
                     /\ fs' = fs
            /\ (Steps(p, "decide") /\ ~loc[p].overlap
                    /\ hist[path] # NoRef /\ hist[path] = loc[p].fetched)
                  => /\ loc'[p].outcome = "UpToDate"
                     /\ fs' = fs
       /\ \A i \in DOMAIN db, j \in DOMAIN db' :
            db[i].id = db'[j].id => db'[j].local_path = db[i].local_path]_vars

\* The second of two attempts in a row has returned UpToDate on a clone that
\* was never fast-forwarded, the first one's outcome already recorded.
UpToDateTwice ==
    \E p \in Procs :
        /\ ops = 2
        /\ pc[p] = "status"
        /\ \A q \in Procs \ {p} : pc[q] = "idle"
        /\ loc[p].outcome = "UpToDate"
        /\ ~loc[p].overlap
        /\ hist[loc[p].rec.local_path] = loc[p].fetched
        /\ Clean(Clone(p)) /\ Tracked(Clone(p))
        /\ Clone(p).tip = <<"r">>
        /\ RowOf(loc[p].rec.url) # <<>>
        /\ Head(RowOf(loc[p].rec.url)).status = "synced"
        /\ Head(RowOf(loc[p].rec.url)).last_synced # NULL

\* C7: when a sweep is over, it has attempted every record it read.
SweepAttemptsAll ==
    (pc[Sweeper] = "done" /\ loc[Sweeper].op = "sweep") => loc[Sweeper].queue = <<>>

\* The status changes a step makes, as pairs <<old, new>>, over the records
\* that are there before and after it.
Transitions ==
    {<<db[i].status, db'[j].status>> :
        <<i, j>> \in {x \in (DOMAIN db) \X (DOMAIN db') :
                        db[x[1]].id = db'[x[2]].id /\ db[x[1]].status # db'[x[2]].status}}

\* C8 as stated: a record's status only goes pending->synced, synced->synced,
\* synced->error, error->synced or error->error.
StatusTransitionsAsStated ==
    [][Transitions \subseteq {<<"pending", "synced">>, <<"synced", "error">>,
                              <<"error", "synced">>}]_vars

\* C8, amended: a record's status only goes pending->synced, pending->error,
\* synced->synced, synced->error, error->synced or error->error; no record
\* returns to pending.
StatusTransitions ==
    [][/\ Transitions \subseteq {<<"pending", "synced">>, <<"pending", "error">>,
                                 <<"synced", "error">>, <<"error", "synced">>}
       /\ \A i \in DOMAIN db' :
            db'[i].status = "pending" => \A j \in DOMAIN db : db[j].id # db'[i].id
                                            \/ db[j].status = "pending"]_vars

\* The one operation of the run was a sync that failed, and the record it was
\* about went from pending to error.
PendingWentToError ==
    \E p \in Procs :
        /\ ops = 1
        /\ pc[p] = "done"
        /\ loc[p].result = "err"
        /\ RowOf(loc[p].rec.url) # <<>>
        /\ Head(RowOf(loc[p].rec.url)).status = "error"

\* C9: when an attempt makes its last write, both of its writes having gone
\* through, and no other attempt on the record is still under way, the
\* record's status is the one of that attempt's outcome.
LastAttemptWins ==
    [][\A p \in Procs :
          LET url == loc[p].rec.url
              written == IF p = Sweeper THEN loc'[p].result # "aborted" ELSE loc'[p].wrote
          IN
          (EndsAttempt(p) /\ written /\ RowOf(url) # <<>>
              /\ \A q \in Procs \ {p} : ~Attempting(q, url))
              => \A j \in DOMAIN db' :
                    db'[j].url = url => db'[j].status = status_for(loc[p].result)]_vars

\* C10: when the directory root/identifier exists, clone_repository fails
\* with AlreadyExists, clones nothing and leaves every directory as it is.
ExistingTargetRefused ==
    [][\A p \in Handlers :
          LET r == extract_repo_name(loc[p].url) IN
          (Steps(p, "clone_check") /\ r.ok /\ fs[join(base_path, r.name)].exists)
              => /\ loc'[p].reason = "AlreadyExists"
                 /\ pc'[p] = "done"
                 /\ fs' = fs]_vars

\* An add request has been refused with AlreadyExists, the directory still
\* there.
RefusedExisting ==
    \E p \in Handlers :
        /\ pc[p] = "done"
        /\ loc[p].op = "add"
        /\ loc[p].reason = "AlreadyExists"
        /\ fs[join(base_path, extract_repo_name(loc[p].url).name)].exists

\* ------------------------------------------------------- add and remove
\* The step being taken is the first of a request of the given kind.
Begins(p, op) == pc[p] = "idle" /\ pc'[p] # "idle" /\ loc'[p].op = op

\* C11: an add request whose URL the canonicaliser rejects is answered with a
\* client error in its first step, before clone_repository is called; no
\* directory and no record is created, and no request with such a URL ever
\* gets to the clone or the insert.
RejectedUrlIsRefused ==
    [][\A p \in Handlers :
          /\ (Begins(p, "add") /\ ~extract_repo_name(loc'[p].url).ok)
                => /\ pc'[p] = "done"
                   /\ loc'[p].resp = 400
                   /\ fs' = fs
                   /\ db' = db
          /\ pc'[p] \in {"clone_check", "clone", "insert"}
                => extract_repo_name(loc'[p].url).ok]_vars

\* An add request with a URL of no supported form has been refused.
RefusedBadUrl ==
    \E p \in Handlers :
        /\ pc[p] = "done"
        /\ loc[p].op = "add"
        /\ ~extract_repo_name(loc[p].url).ok
        /\ loc[p].resp = 400
        /\ loc[p].reason = "Unsupported URL format"

\* C12: a record is inserted only by a request whose clone has succeeded; the
\* existence check and the clone leave the registry alone, a failed clone
\* ends the request, and the insert, failed or not, leaves the cloned
\* directory in place.
CloneThenRegister ==
    [][/\ \A p \in Handlers :
            LET path == loc[p].rec.local_path IN
            /\ (Steps(p, "clone_check") \/ Steps(p, "clone")) => db' = db
            /\ (Steps(p, "clone") /\ pc'[p] # "insert")
                  => /\ pc'[p] = "done"
                     /\ fs' = fs
                     /\ loc'[p].resp = 400
            /\ (Steps(p, "clone") /\ pc'[p] = "insert")
                  => /\ ~fs[path].exists
                     /\ fs'[path].exists
            /\ Steps(p, "insert")
                  => /\ fs' = fs
                     /\ loc'[p].resp = 201
                          => /\ Len(db') = Len(db) + 1
                             /\ SubSeq(db', 1, Len(db)) = db
                             /\ db'[Len(db')].url = loc[p].url
                             /\ db'[Len(db')].local_path = path
                             /\ db'[Len(db')].status = "pending"
                     /\ loc'[p].resp # 201 => db' = db
       /\ Len(db') > Len(db) => \E p \in Handlers : Steps(p, "insert")]_vars

\* An insert has failed after its clone succeeded, and the cloned directory
\* is still there.
CloneKeptAfterFailedInsert ==
    \E p \in Handlers :
        /\ pc[p] = "done"
        /\ loc[p].op = "add"
        /\ loc[p].reason = "InsertFailed"
        /\ loc[p].resp = 500
        /\ fs[loc[p].rec.local_path].exists

\* C13: a remove request for a URL with no record is answered "not found",
\* which a failed lookup is not, and changes nothing; for a registered URL
\* the directory deletion comes first and, failed or not, is followed by the
\* delete of the record, which leaves the filesystem alone.
RemoveDirThenRecord ==
    [][\A p \in Handlers :
          /\ (Begins(p, "remove") /\ RowOf(loc'[p].url) = <<>>)
                => /\ pc'[p] = "done"
                   /\ loc'[p].resp \in {404, 500}
                   /\ loc'[p].resp = 404 <=> loc'[p].reason = "NotFound"
                   /\ fs' = fs
                   /\ db' = db
          /\ (Begins(p, "remove") /\ RowOf(loc'[p].url) # <<>>)
                => /\ loc'[p].resp # 404
                   /\ pc'[p] = "rmdir" \/ (pc'[p] = "done" /\ loc'[p].resp = 500)
                   /\ fs' = fs
                   /\ db' = db
          /\ Steps(p, "rmdir")
                => /\ pc'[p] = "delete"
                   /\ db' = db
                   /\ \A q \in Paths : q # loc[p].rec.local_path => fs'[q] = fs[q]
          /\ Steps(p, "delete")
                => /\ fs' = fs
                   /\ loc'[p].resp = 200 => \A j \in DOMAIN db' : db'[j].url # loc[p].url
                   /\ loc'[p].resp # 200 => db' = db]_vars

\* A record has been deleted although its directory could not be.
RecordGoneDirectoryLeft ==
    \E p \in Handlers :
        /\ pc[p] = "done"
        /\ loc[p].op = "remove"
        /\ loc[p].resp = 200
        /\ RowOf(loc[p].url) = <<>>
        /\ fs[loc[p].rec.local_path].exists
        /\ \A q \in Procs \ {p} : pc[q] = "idle" /\ ops = 1

\* Every record's local_path is a directory on disk.
RecordsHaveDirectories == \A i \in DOMAIN db : fs[db[i].local_path].exists

\* C14: no step of an add, a remove or a sync takes the service from a state
\* in which every record's local_path exists on disk to one in which some
\* record's does not.
RecordsKeepDirectories ==
    [][RecordsHaveDirectories => RecordsHaveDirectories']_vars

CanonHosts == {<<"h">>, <<"h", ".", "c">>}
CanonOrg == <<"o">>
CanonUser == <<"g">>
CanonRepos == {<<"a">>, <<"a", ".", "b">>, <<"a">> \o DotGit}
CanonForms ==
    {"http", "https", "ssh_org", "ssh_flat",
     "bare", "bare_http", "no_scheme", "two_colons", "two_ats", "three_segments",
     "dot_org", "dot_host", "empty_org"}

NotRun == [ok |-> FALSE, name |-> <<>>, err |-> "not run"]

CanonInputs ==
    [form : CanonForms, host : CanonHosts, repo : CanonRepos, git : BOOLEAN,
     slashes : 0..MaxSlashes, out : {NotRun}, api : {NotRun}]

RECURSIVE Repeat(_, _)
Repeat(s, n) == IF n = 0 THEN <<>> ELSE s \o Repeat(s, n - 1)

\* The URL as the caller writes it.
Spelled(c) ==
    LET last == c.repo \o (IF c.git THEN DotGit ELSE <<>>) \o Repeat(Slash, c.slashes) IN
    CASE c.form = "http" -> Http \o c.host \o Slash \o CanonOrg \o Slash \o last
      [] c.form = "https" -> Https \o c.host \o Slash \o CanonOrg \o Slash \o last
      [] c.form = "ssh_org" ->
             CanonUser \o <<"@">> \o c.host \o <<":">> \o CanonOrg \o Slash \o last
      [] c.form = "ssh_flat" -> CanonUser \o <<"@">> \o c.host \o <<":">> \o last
      [] c.form = "bare" -> c.host \o Repeat(Slash, c.slashes)
      [] c.form = "bare_http" -> Https \o c.host \o Repeat(Slash, c.slashes)
      [] c.form = "no_scheme" -> c.host \o Slash \o CanonOrg \o Slash \o last
      [] c.form = "two_colons" ->
             CanonUser \o <<"@">> \o c.host \o <<":">> \o CanonOrg \o <<":">> \o last
      [] c.form = "two_ats" ->
             CanonUser \o <<"@">> \o CanonUser \o <<"@">> \o c.host \o <<":">>
                 \o CanonOrg \o Slash \o last
      [] c.form = "three_segments" ->
             CanonUser \o <<"@">> \o c.host \o <<":">> \o CanonOrg \o Slash
                 \o CanonOrg \o Slash \o last
      [] c.form = "dot_org" -> Https \o c.host \o Slash \o <<".", ".">> \o Slash \o last
      [] c.form = "dot_host" ->
             Https \o <<".", ".">> \o Slash \o <<".", ".">> \o Slash \o last
      [] c.form = "empty_org" -> Https \o c.host \o Slash \o Slash \o last

InitUrl ==
    /\ fs = [p \in Paths |-> NoDir]
    /\ remote = [p \in Paths |-> <<"c">>]
    /\ db = <<>>
    /\ nextId = 1
    /\ now = 0
    /\ pc = [p \in Procs |-> "idle"]
    /\ loc = [p \in Procs |-> Locals0]
    /\ ops = 0
    /\ pushes = 0
    /\ hist = [p \in Paths |-> Hist0]
    /\ sessions = NoSessions
    /\ issued = <<>>
    /\ revoked = {}
    /\ canon \in CanonInputs
    /\ persist = NoPersist

\* git_manager.rs 28: clone_repository asks for the URL's canonical name.
Canonicalize ==
    /\ canon.out = NotRun
    /\ canon' = [canon EXCEPT !.out = extract_repo_name(Spelled(canon))]
    /\ UNCHANGED <<fs, remote, db, now, nextId, pc, loc, ops, pushes, hist,
                   sessions, issued, revoked, persist>>

\* handlers.rs 191: handle_add_repository asks its own copy.
ApiCanonicalize ==
    /\ canon.api = NotRun
    /\ canon' = [canon EXCEPT !.api = handlers_extract_repo_name(Spelled(canon))]
    /\ UNCHANGED <<fs, remote, db, now, nextId, pc, loc, ops, pushes, hist,
                   sessions, issued, revoked, persist>>

NextUrl == Canonicalize \/ ApiCanonicalize

SpecUrl == InitUrl /\ [][NextUrl]_vars

\* C20: every URL of a stated shape is given exactly host/org/repo (host/repo
\* for user@host:repo.git), one ".git" suffix stripped and trailing slashes
\* ignored.  A URL has a stated shape, and one reading only, when an SSH URL
\* ends in ".git" and an HTTPS URL without the suffix names a repository that
\* does not itself end in ".git".
CanonicalAsStated ==
    LET c == canon
        shaped == IF c.form \in {"ssh_org", "ssh_flat"} THEN c.git
                  ELSE /\ c.form \in {"http", "https"}
                       /\ c.git \/ ~ends_with(c.repo, DotGit)
        stated == IF c.form = "ssh_flat" THEN c.host \o Slash \o c.repo
                  ELSE c.host \o Slash \o CanonOrg \o Slash \o c.repo
    IN  (c.out # NotRun /\ shaped) => c.out = Ok(stated)

\* ============================================================== the sessions
Bearer == <<"B", "e", "a", "r", "e", "r", " ">>

\* The n-th token Uuid::new_v4 returns: version 4 UUIDs are taken to be
\* unique, so every call gives a token no earlier call gave.
Digits == <<"1", "2", "3", "4">>

\* A generator that repeats itself.
new_v4_repeating(n) == <<"t", Digits[1]>>

\* Uuid::new_v4().to_string()
new_v4(n) == <<"t", Digits[n + 1]>>

Tokens == {new_v4(n) : n \in 0..(MaxLogins - 1)}

\* A token the service never issued.
ForgedToken == <<"x">>

\* Option<String>
None == [some |-> FALSE, v |-> ""]
Some(v) == [some |-> TRUE, v |-> v]

\* An insert that stores nothing.
insert_session_lost(s, token, username) == s

\* auth.rs 27-28: HashMap::insert
insert_session(s, token, username) ==
    [t \in DOMAIN s \cup {token} |-> IF t = token THEN username ELSE s[t]]

\* A lookup that finds every token.
validate_session_any(s, token) == Some("alice")

\* AuthManager::validate_session
validate_session(s, token) == IF token \in DOMAIN s THEN Some(s[token]) ELSE None

\* A removal that takes some session when the token has none.
remove_session_some(s, token) ==
    IF token \in DOMAIN s \/ DOMAIN s = {} THEN [t \in DOMAIN s \ {token} |-> s[t]]
    ELSE [t \in DOMAIN s \ {CHOOSE x \in DOMAIN s : TRUE} |-> s[t]]

\* AuthManager::remove_session
remove_session(s, token) == [t \in DOMAIN s \ {token} |-> s[t]]

\* The users table: username -> the password its hash was made from.
Users == [alice |-> "pa", bob |-> "pb"]

\* Database::get_user_by_username
get_user_by_username(username) ==
    IF username \in DOMAIN Users
    THEN Some([username |-> username, password_hash |-> <<"bcrypt", Users[username]>>])
    ELSE None

\* AuthManager::verify_password
verify_password(password, hash) == hash = <<"bcrypt", password>>

\* with_auth and with_auth_token: the username, or the Unauthorized rejection.
with_auth(header, s) ==
    IF header.present /\ starts_with(header.value, Bearer)
    THEN validate_session(s, SubSeq(header.value, 8, Len(header.value)))
    ELSE None

\* Tokens handed out by new_v4 so far: those of the sessions created and
\* those of the logins waiting for the write lock.
Drawn == Len(issued) + Cardinality({p \in Handlers : pc[p] = "session"})

\* A request goes to the first free handler task.
MayServe(p) ==
    /\ p \in Handlers
    /\ pc[p] = "idle"
    /\ p = "h2" => pc["h1"] # "idle"

\* handlers.rs 117-149: handle_login up to the write lock of create_session.
StartLogin(p, username, password) ==
    /\ MayServe(p)
    /\ LET l == [Locals0 EXCEPT !.op = "login", !.route = "login"] IN
       \E dbok \in BOOLEAN :
         LET user == IF dbok THEN get_user_by_username(username) ELSE None IN
         IF user.some /\ verify_password(password, user.v.password_hash)
         THEN /\ Drawn < MaxLogins
              /\ loc' = [loc EXCEPT ![p] =
                            [l EXCEPT !.username = user.v.username, !.token = new_v4(Drawn)]]
              /\ pc' = [pc EXCEPT ![p] = "session"]
         ELSE /\ loc' = [loc EXCEPT ![p] =
                            Respond([l EXCEPT !.reason = "Invalid credentials"], 401)]
              /\ pc' = [pc EXCEPT ![p] = "done"]
    /\ UNCHANGED <<fs, remote, db, now, nextId, ops, pushes, hist>>
    /\ UNCHANGED aux

\* auth.rs 26-28 and handlers.rs 122-130: the insert under the write lock and
\* the reply with the token.
CreateSession(p) ==
    /\ pc[p] = "session"
    /\ sessions' = insert_session(sessions, loc[p].token, loc[p].username)
    /\ issued' = Append(issued, [token |-> loc[p].token, username |-> loc[p].username])
    /\ loc' = [loc EXCEPT ![p] = Respond(loc[p], 200)]
    /\ pc' = [pc EXCEPT ![p] = "done"]
    /\ UNCHANGED <<fs, remote, db, now, nextId, ops, pushes, hist, revoked, canon, persist>>

Protected == {"list", "add", "remove", "sync", "logout"}

Headers ==
    {NoHeader} \cup
    {[present |-> TRUE, value |-> v] :
        v \in {Bearer \o t : t \in Tokens \cup {ForgedToken}} \cup {new_v4(0)}}

\* handlers.rs 32-72, 82-115: a protected route runs its authorisation filter
\* before its handler.  No recover filter is installed, so warp answers the
\* Unauthorized rejection with its reply for unhandled rejections, a 500.
Admit(p, route, header) ==
    /\ MayServe(p)
    /\ ops < MaxOps
    /\ ops' = ops + 1
    /\ LET who == with_auth(header, sessions) IN
       IF who.some
       THEN /\ loc' = [loc EXCEPT ![p] =
                          [Locals0 EXCEPT !.route = route, !.username = who.v,
                                          !.token = SubSeq(header.value, 8, Len(header.value))]]
            /\ pc' = [pc EXCEPT ![p] = "admitted"]
       ELSE /\ loc' = [loc EXCEPT ![p] =
                          Respond([Locals0 EXCEPT !.header = header,
                                                  !.reason = "Unauthorized"], 500)]
            /\ pc' = [pc EXCEPT ![p] = "done"]
    /\ UNCHANGED <<fs, remote, db, now, nextId, pushes, hist>>
    /\ UNCHANGED aux

Serving(p, route) == pc[p] = "admitted" /\ loc[p].route = route

\* handlers.rs 151-161: handle_logout
Logout(p) ==
    /\ Serving(p, "logout")
    /\ sessions' = remove_session(sessions, loc[p].token)
    /\ revoked' = revoked \cup {loc[p].token}
    /\ loc' = [loc EXCEPT ![p] = Respond([loc[p] EXCEPT !.op = "logout"], 200)]
    /\ pc' = [pc EXCEPT ![p] = "done"]
    /\ UNCHANGED <<fs, remote, db, now, nextId, ops, pushes, hist, issued, canon, persist>>

\* handlers.rs 163-182: handle_get_repositories
ListRepositories(p) ==
    /\ Serving(p, "list")
    /\ \E dbok \in BOOLEAN :
         IF dbok
         THEN loc' = [loc EXCEPT ![p] =
                         Respond([loc[p] EXCEPT !.op = "list",
                                                !.read = Snapshots(get_all_repositories(db))], 200)]
         ELSE loc' = [loc EXCEPT ![p] = Respond([loc[p] EXCEPT !.op = "list"], 500)]
    /\ pc' = [pc EXCEPT ![p] = "done"]
    /\ UNCHANGED <<fs, remote, db, now, nextId, ops, pushes, hist>>
    /\ UNCHANGED aux

\* A session store and a registry with one repository whose remote has moved on.
InitAuth ==
    /\ Idle
    /\ remote = [p \in Paths |-> IF p = PathA THEN <<"r", "r">> ELSE <<"r">>]
    /\ db = <<Row(1, UrlA)>>
    /\ nextId = 2
    /\ fs = [p \in Paths |-> IF p = PathA THEN FreshClone(<<"r">>) ELSE NoDir]

LoginRequest ==
    \E p \in Handlers, username \in {"alice", "bob", "eve"}, password \in {"pa", "pb"} :
        StartLogin(p, username, password)

ProtectedRequest ==
    \E p \in Handlers, route \in Protected, header \in Headers : Admit(p, route, header)

NextAuth ==
    \/ LoginRequest
    \/ \E p \in Handlers : CreateSession(p)
    \/ ProtectedRequest
    \/ \E p \in Handlers : Logout(p)
    \/ \E p \in Handlers : ListRepositories(p)
    \/ \E p \in Handlers : Serving(p, "add") /\ StartAdd(p, UrlB)
    \/ \E p \in Handlers : Serving(p, "remove") /\ StartRemove(p, UrlA)
    \/ \E p \in Handlers : Serving(p, "sync") /\ StartSync(p, UrlA)
    \/ \E p \in Handlers : SyncFetch(p)
    \/ \E p \in Handlers : SyncDecide(p)
    \/ \E p \in Handlers : SyncSetTarget(p)
    \/ \E p \in Handlers : SyncCheckout(p)
    \/ \E p \in Handlers : HandlerStatus(p)
    \/ \E p \in Handlers : HandlerLastSynced(p)
    \/ \E p \in Handlers : CloneCheck(p)
    \/ \E p \in Handlers : CloneRun(p)
    \/ \E p \in Handlers : InsertRecord(p)
    \/ \E p \in Handlers : RemoveDir(p)
    \/ \E p \in Handlers : DeleteRecord(p)
    \/ \E p \in Handlers : Finish(p)

\* The API behind its authorisation filter.
SpecAuth == InitAuth /\ [][NextAuth]_vars

\* The tokens of the sessions created so far.
IssuedTokens(log) == {log[i].token : i \in DOMAIN log}

\* The token a request carries, when its header has the Bearer form.
Carried(header) == SubSeq(header.value, 8, Len(header.value))

\* C16: sessions created for different identities, in any interleaving, have
\* distinct tokens, each token validates to the identity it was created for
\* until it is removed, and creating or removing one session leaves every
\* other session as it was.
SessionsAreIndependent ==
    [][/\ \A i, j \in DOMAIN issued' :
             i # j => issued'[i].token # issued'[j].token
       /\ \A i \in DOMAIN issued' :
             issued'[i].token \notin revoked' =>
                 /\ issued'[i].token \in DOMAIN sessions'
                 /\ sessions'[issued'[i].token] = issued'[i].username
       /\ \A p \in Handlers :
             (pc[p] \in {"session", "admitted"} /\ pc'[p] = "done") =>
                 \A t \in DOMAIN sessions \ {loc[p].token} :
                     t \in DOMAIN sessions' /\ sessions'[t] = sessions[t]
      ]_vars

\* Two logins in flight at once have each been given a session of their own.
ConcurrentSessions ==
    /\ \A p \in Handlers : pc[p] = "done" /\ loc[p].op = "login" /\ loc[p].resp = 200
    /\ loc["h1"].username # loc["h2"].username
    /\ loc["h1"].token # loc["h2"].token
    /\ \A p \in Handlers : validate_session(sessions, loc[p].token) = Some(loc[p].username)

\* C17: the tokens that validate are exactly those a successful login issued
\* and no logout has removed; a failed login adds none; only the insert of a
\* login and the removal of a logout change the session map; a token that
\* was logged out never validates again.
ValidTokensAreIssuedAndLive ==
    [][/\ \A t \in Tokens \cup {ForgedToken} :
             validate_session(sessions', t).some
                 <=> t \in IssuedTokens(issued') \ revoked'
       /\ DOMAIN sessions' \subseteq Tokens
       /\ \A p \in Handlers :
             (pc[p] = "idle" /\ loc'[p].op = "login") =>
                 sessions' = sessions /\ issued' = issued
       /\ sessions' # sessions =>
             \E p \in Handlers :
                 \/ pc[p] = "session" /\ pc'[p] = "done" /\ loc'[p].resp = 200
                 \/ Serving(p, "logout") /\ pc'[p] = "done"
       /\ revoked \subseteq revoked'
      ]_vars

\* One session was logged out and no longer validates, another still does,
\* and a login with wrong credentials was turned away.
LoggedOutAndLive ==
    /\ \E t \in revoked : ~validate_session(sessions, t).some
    /\ \E t \in Tokens : validate_session(sessions, t).some
    /\ \E p \in Handlers : pc[p] = "done" /\ loc[p].op = "login" /\ loc[p].resp = 401

\* C18: a protected route is served only when the request carries a Bearer
\* token that validates when the filter runs; any other request is rejected
\* with the registry, the filesystem and the session map untouched; and
\* no handler of a protected route starts without having been admitted.
OnlyValidTokensAreServed ==
    [][\A p \in Handlers :
         /\ (pc[p] = "idle" /\ pc'[p] = "admitted") =>
                 /\ loc'[p].token \in DOMAIN sessions
                 /\ loc'[p].username = sessions[loc'[p].token]
                 /\ loc'[p].token \notin revoked
                 /\ UNCHANGED <<db, fs, sessions>>
         /\ (pc[p] = "idle" /\ pc'[p] = "done" /\ loc'[p].op # "login") =>
                 /\ loc'[p].reason = "Unauthorized"
                 /\ ~(/\ loc'[p].header.present
                      /\ starts_with(loc'[p].header.value, Bearer)
                      /\ Carried(loc'[p].header) \in DOMAIN sessions)
                 /\ UNCHANGED <<db, fs, sessions>>
         /\ (loc[p].op = "none" /\ loc'[p].op \in Protected) => pc[p] = "admitted"
         /\ (pc[p] = "idle" /\ pc'[p] # "idle") =>
                 loc'[p].op \in {"none", "login"}
      ]_vars

\* A request with a token that was logged out has been turned away.
RevokedTokenRejected ==
    \E p \in Handlers :
        /\ pc[p] = "done" /\ loc[p].reason = "Unauthorized"
        /\ loc[p].header.present
        /\ starts_with(loc[p].header.value, Bearer)
        /\ Carried(loc[p].header) \in revoked

\* C19: removing a session that is not in the map succeeds and changes
\* nothing, and removing a token twice leaves the map as removing it once.
RemoveSessionIdempotent ==
    [][/\ \A t \in Tokens \cup {ForgedToken} :
             /\ t \notin DOMAIN sessions => remove_session(sessions, t) = sessions
             /\ remove_session(remove_session(sessions, t), t) = remove_session(sessions, t)
       /\ \A p \in Handlers :
             (Serving(p, "logout") /\ pc'[p] = "done") =>
                 /\ loc'[p].resp = 200
                 /\ loc[p].token \notin DOMAIN sessions'
                 /\ loc[p].token \notin DOMAIN sessions => sessions' = sessions
      ]_vars

\* Two logouts of the same token have both been answered: the second found
\* the session already gone, while another session is still there.
RemovedTwice ==
    /\ \A p \in Handlers : pc[p] = "done" /\ loc[p].op = "logout" /\ loc[p].resp = 200
    /\ loc["h1"].token = loc["h2"].token
    /\ DOMAIN sessions # {}

\* ------------------------------------------------ what the canonicaliser does
\* C21: the canonicaliser returns an error and no identifier for a bare
\* hostname, with or without a scheme, for a URL with neither a recognised
\* scheme nor an @, for an SSH URL with a second colon after the @, for one
\* with a second @, and for an SSH path of more than two segments.
MalformedIsRejected ==
    (/\ canon.out # NotRun
     /\ canon.form \in {"bare", "bare_http", "no_scheme", "two_colons", "two_ats",
                        "three_segments"})
        => ~canon.out.ok /\ canon.out.name = <<>>

\* An SSH URL with a second colon after the @ has been turned down.
TwoColonsRejected ==
    /\ canon.form = "two_colons"
    /\ canon.out # NotRun
    /\ ~canon.out.ok
    /\ canon.out.err = "Invalid SSH URL format"

\* C22: no segment of an identifier the canonicaliser returns is ".", ".."
\* or empty, so the clone target root/identifier lies inside the root.
NoTraversalSegments ==
    (canon.out # NotRun /\ canon.out.ok) =>
        \A i \in DOMAIN split(canon.out.name, Slash) :
            split(canon.out.name, Slash)[i] \notin {<<>>, <<".">>, <<".", ".">>}

\* C30: the API layer's copy and the engine's copy of extract_repo_name
\* accept and reject the same URLs with equal results, so the record that
\* add_repository writes from the API layer's name and the engine's clone
\* path has local_path = root / name.
CopiesAgree ==
    (canon.out # NotRun /\ canon.api # NotRun) =>
        /\ canon.api = canon.out
        /\ canon.api.ok =>
              LET row == Head(add_repository(<<>>, 1, Spelled(canon), canon.api.name,
                                             join(base_path, canon.out.name)))
              IN  row.local_path = join(base_path, row.name)

\* Both copies have named an SSH URL with a ".git" suffix and a trailing slash.
BothNamedSshUrl ==
    /\ canon.form = "ssh_org" /\ canon.git /\ canon.slashes > 0
    /\ canon.out.ok /\ canon.api.ok
    /\ canon.api.name = canon.host \o Slash \o CanonOrg \o Slash \o <<"a", ".", "b">>

\* ------------------------------------------------- what a sync leaves behind
\* C23: a record has no last_synced when it is registered, an attempt that
\* returned without error sets it to the time of its last write, an attempt
\* that returned an error leaves it as it was, and nothing else changes it.
LastSyncedFollowsSuccess ==
    [][/\ \A j \in DOMAIN db' :
            (\A i \in DOMAIN db : db[i].id # db'[j].id) => db'[j].last_synced = NULL
       /\ \A p \in Procs :
            /\ (Steps(p, "status") /\ loc[p].result = "err")
                  => \A i \in DOMAIN db : /\ i \in DOMAIN db'
                                           /\ db'[i].last_synced = db[i].last_synced
            /\ (EndsAttempt(p) /\ loc[p].result = "ok")
                  => \A j \in DOMAIN db' :
                        db'[j].url = loc[p].rec.url
                            => db'[j].last_synced = now' /\ now' > now
       /\ \A i \in DOMAIN db, j \in DOMAIN db' :
            (db[i].id = db'[j].id /\ db[i].last_synced # db'[j].last_synced)
                => \E p \in Procs : /\ Steps(p, "last_synced")
                                     /\ loc[p].result = "ok"
                                     /\ loc[p].rec.url = db[i].url
      ]_vars

\* C24: an attempt that ends in LocalChangesSkipped or DivergedSkipped is a
\* success for its caller: the sweep and the handler write status = synced,
\* never error, and refresh last_synced.
SafetyHoldIsSuccess ==
    [][\A p \in Procs :
          LET url == loc[p].rec.url
              held == loc[p].outcome \in {"LocalChangesSkipped", "DivergedSkipped"}
          IN
          /\ (Steps(p, "decide") /\ loc'[p].outcome \in {"LocalChangesSkipped", "DivergedSkipped"})
                => loc'[p].result = "ok"
          /\ (Steps(p, "status") /\ held)
                => /\ pc'[p] = "last_synced"
                   /\ \A j \in DOMAIN db' : db'[j].url = url => db'[j].status = "synced"
          /\ (Steps(p, "last_synced") /\ held)
                => \A j \in DOMAIN db' :
                      db'[j].url = url => db'[j].last_synced = now' /\ now' > now
      ]_vars

\* C25: on a clean clone the attempt returns UpToDate and changes nothing
\* when the head is detached, when the branch has no remote-tracking
\* counterpart, or when the branch is not behind it; the branch is moved only
\* by an attempt that found it strictly behind with no commits of its own.
UpToDateCases ==
    [][/\ \A p \in Procs :
            LET d == fs[loc[p].rec.local_path] IN
            /\ (/\ Steps(p, "decide") /\ d.exists /\ Clean(d)
                /\ \/ d.head = "detached"
                   \/ d.tracking = NoRef
                   \/ IsAncestor(d.tracking, d.tip))
                  => /\ loc'[p].outcome = "UpToDate"
                     /\ pc'[p] = "status"
                     /\ fs' = fs
            /\ (Steps(p, "decide") /\ pc'[p] = "set_target")
                  => /\ Clean(d) /\ d.tracking # NoRef
                     /\ graph_ahead_behind(d.tip, d.tracking).ahead = 0
                     /\ graph_ahead_behind(d.tip, d.tracking).behind > 0
       /\ \A path \in Paths :
            (fs[path].exists /\ fs'[path].exists /\ fs'[path].tip # fs[path].tip)
                => \E p \in Procs : Steps(p, "set_target") /\ loc[p].rec.local_path = path
      ]_vars

\* C26: an attempt on a record whose local_path does not exist, is not a
\* valid clone or has no remote named origin returns the matching error
\* without fetching and without changing any directory; its caller then
\* writes status = error and no last_synced.
PreconditionErrors ==
    [][\A p \in Procs :
          LET d == fs[loc[p].rec.local_path]
              url == loc[p].rec.url
              written == IF p = Sweeper THEN loc'[p].result # "aborted" ELSE loc'[p].wrote
          IN
          /\ (Steps(p, "fetch") /\ (~d.exists \/ ~d.valid \/ ~d.origin))
                => /\ pc'[p] = "status"
                   /\ loc'[p].outcome = "Error"
                   /\ loc'[p].result = "err"
                   /\ loc'[p].reason = (IF ~d.exists THEN "PathMissing"
                                        ELSE IF ~d.valid THEN "OpenError" ELSE "NoOrigin")
                   /\ loc'[p].fetched = NoRef
                   /\ fs' = fs
          /\ (Steps(p, "status") /\ loc[p].reason \in {"PathMissing", "OpenError", "NoOrigin"})
                => /\ pc'[p] # "last_synced"
                   /\ now' = now
                   /\ written => \A j \in DOMAIN db' :
                                    db'[j].url = url => db'[j].status = "error"
                   /\ \A j \in DOMAIN db' : db'[j].url = url => db'[j].last_synced = db[j].last_synced
      ]_vars

\* An attempt on a clone without a remote named origin has ended, and the
\* record is in error with no last_synced.
NoOriginRecorded ==
    \E p \in Handlers :
        /\ pc[p] = "done"
        /\ loc[p].reason = "NoOrigin"
        /\ loc[p].resp = 500
        /\ fs[loc[p].rec.local_path].exists /\ ~fs[loc[p].rec.local_path].origin
        /\ Head(RowOf(loc[p].rec.url)).status = "error"
        /\ Head(RowOf(loc[p].rec.url)).last_synced = NULL

\* C28: the step in which an attempt returns an error changes no directory,
\* and when that step is the forced checkout of a fast-forward, the branch is
\* not at the remote commit the attempt was forwarding to.
ErrorLeavesCloneAlone ==
    [][\A p \in Procs :
          LET path == loc[p].rec.local_path IN
          (pc[p] \in {"fetch"} \cup EnginePcs /\ pc'[p] = "status"
              /\ loc'[p].outcome = "Error")
            => /\ fs' = fs
               /\ (pc[p] = "checkout" /\ fs[path].exists)
                    => fs'[path].tip # loc[p].remote_commit
      ]_vars

\* ------------------------------------------------------- concurrent additions
\* C29: of the add requests for one identifier, a request that reaches its
\* existence check or its clone when root/identifier exists fails with
\* AlreadyExists and changes no directory, a clone is only made into a path
\* that does not exist, and no two records have the same local_path.
OneAddWins ==
    [][/\ \A p \in Handlers :
            LET r == extract_repo_name(loc[p].url)
                target == join(base_path, r.name)
            IN
            /\ (pc[p] \in {"clone_check", "clone"} /\ pc'[p] = "done"
                    /\ r.ok /\ fs[target].exists)
                  => /\ loc'[p].reason = "AlreadyExists"
                     /\ fs' = fs
            /\ (pc[p] = "clone" /\ pc'[p] = "insert") => ~fs[target].exists
       /\ \A i, j \in DOMAIN db' :
            db'[i].local_path = db'[j].local_path => i = j
      ]_vars

\* ===================================================== the two callers of sync
\* One registered repository, in any status, synced before or not, and one
\* result of sync_repository together with the fate of the writes that
\* follow it.
InitPersist ==
    /\ fs = [p \in Paths |-> IF p = PathA THEN FreshClone(<<"r">>) ELSE NoDir]
    /\ remote = [p \in Paths |-> <<"r">>]
    /\ \E st \in {"pending", "synced", "error"}, t \in {NULL, 1} :
         db = <<[Row(1, UrlA) EXCEPT !.status = st, !.last_synced = t]>>
    /\ nextId = 2
    /\ now = 1
    /\ pc = [p \in Procs |-> "idle"]
    /\ loc = [p \in Procs |-> Locals0]
    /\ ops = 0
    /\ pushes = 0
    /\ hist = [p \in Paths |-> Hist0]
    /\ sessions = NoSessions
    /\ issued = <<>>
    /\ revoked = {}
    /\ canon = NoCanon
    /\ persist \in [result : {"ok", "err"}, status_ok : BOOLEAN, last_synced_ok : BOOLEAN,
                     handler : {NotRun}, sweep : {NotRun}]

\* handlers.rs 314-334: both writes are attempted and their results dropped
\* (let _ =); the response follows the result of sync_repository alone.
handle_sync_repository(rows, url, result, status_ok, last_synced_ok, t) ==
    LET r1 == IF status_ok THEN update_repository_status(rows, url, status_for(result))
              ELSE rows
    IN
    IF result = "ok"
    THEN [rows |-> IF last_synced_ok THEN update_last_synced(r1, url, t) ELSE r1,
          report |-> "ok"]
    ELSE [rows |-> r1, report |-> "err"]

\* main.rs 82-88, one iteration: a sync error is logged (error!) and a failed
\* write leaves the function through `?` before anything after it.
sync_all_repositories(rows, url, result, status_ok, last_synced_ok, t) ==
    IF ~status_ok THEN [rows |-> rows, report |-> "err"]
    ELSE LET r1 == update_repository_status(rows, url, status_for(result)) IN
         IF result = "err" THEN [rows |-> r1, report |-> "err"]
         ELSE IF ~last_synced_ok THEN [rows |-> r1, report |-> "err"]
         ELSE [rows |-> update_last_synced(r1, url, t), report |-> "ok"]

\* The on-demand handler is given the result.
HandlerPersist ==
    /\ persist # NoPersist
    /\ persist.handler = NotRun
    /\ persist' = [persist EXCEPT !.handler =
                      handle_sync_repository(db, UrlA, persist.result, persist.status_ok,
                                             persist.last_synced_ok, now + 1)]
    /\ UNCHANGED <<fs, remote, db, now, nextId, pc, loc, ops, pushes, hist,
                   sessions, issued, revoked, canon>>

\* The sweep is given the result.
SweepPersist ==
    /\ persist # NoPersist
    /\ persist.sweep = NotRun
    /\ persist' = [persist EXCEPT !.sweep =
                      sync_all_repositories(db, UrlA, persist.result, persist.status_ok,
                                            persist.last_synced_ok, now + 1)]
    /\ UNCHANGED <<fs, remote, db, now, nextId, pc, loc, ops, pushes, hist,
                   sessions, issued, revoked, canon>>

NextPersist == HandlerPersist \/ SweepPersist

SpecPersist == InitPersist /\ [][NextPersist]_vars

\* C27: given the same result of sync_repository and the same fate of the
\* status and last_synced writes, the on-demand handler and one iteration of
\* the sweep leave the record with the same status and last_synced and both
\* report success or both report failure.
CallersAgree ==
    (persist # NoPersist /\ persist.handler # NotRun /\ persist.sweep # NotRun) =>
        /\ Head(persist.handler.rows).status = Head(persist.sweep.rows).status
        /\ Head(persist.handler.rows).last_synced = Head(persist.sweep.rows).last_synced
        /\ persist.handler.report = persist.sweep.report


====
